---- MODULE Spec2Model ----
(***************************************************************************)
(* Model of the in-memory key/value store of src/database.cpp              *)
(* (class Database): the DataStore map of DataItems, the TransStore map of *)
(* Transactions with their Instructions, and the public operations put,    *)
(* get, erase (auto-commit and transaction-scoped), createTransaction,     *)
(* rollbackTransaction and commitTransaction, run by several threads.      *)
(*                                                                         *)
(* Granularity.  A thread's step is one check of the maps, or one guarded  *)
(* section: a blocking lock() together with the accesses made under it.    *)
(* The gaps between a check (keyIsAlive, transactionIsAlive) and the       *)
(* lock() that follows it, and between the steps of the commit loops, are  *)
(* places where other threads run.  read_mutex is only ever held inside    *)
(* one such section, so it is always free between steps and is not kept    *)
(* as a field; every acquisition of it is recorded in `acquired`.  A       *)
(* lookup, an insertion or an erasure in one of the two maps is taken as   *)
(* one indivisible access.                                                 *)
(*                                                                         *)
(* Undefined behaviour.  lock() on a mutex whose DataItem or Transaction   *)
(* was erased while the thread was on its way into lock() (a dangling      *)
(* reference), and begin() dereferenced on an empty instruction map, are   *)
(* nondeterministic choices over their outcomes (LockModes, EmptyModes).   *)
(* unlock() of a mutex the thread does not own leaves it unlocked, which   *)
(* is what std::mutex over a default pthread mutex does.                   *)
(***************************************************************************)
EXTENDS Integers, FiniteSets, TLC

\* Bounds of the model.
MaxKey == 2
MaxVal == 2
MaxTid == 2
MaxThread == 2
MaxOps == 6
MaxCalls == 1

Keys == 1..MaxKey          \* keys, ordered as std::map orders its strings
Values == 1..MaxVal        \* values; 0 stands for nullptr
Tids == 1..MaxTid          \* transaction ids
Threads == 1..MaxThread    \* client threads; 0 stands for an unlocked mutex

End == MaxKey + 1          \* instructions.end()
REnd == 0                  \* instructions.rend()

VARIABLES
    data,                      \* DatabasePrivate::data
    transactions,              \* DatabasePrivate::transactions
    pc,                        \* where each thread stands
    call,                      \* the call each thread makes or made last
    result,                    \* how that call ended
    key_instruction_init,      \* commit: iterator of the locking loop
    key_instruction_exec,      \* commit: iterator of the execution loop
    key_instruction_release,   \* commit: reverse iterator of the release loop
    last_key,                  \* commit: *last_key
    stale,                     \* the mutex the thread is locking was erased
    acquired,                  \* the entry guard acquired by the latest step
    before,                    \* data when the thread's commit was called
    staged,                    \* the instructions it was called to commit or roll back
    dirty,                     \* <<id, key>>: key changed since id first touched it
    left                       \* calls each thread may still make

locals == <<key_instruction_init, key_instruction_exec, key_instruction_release, last_key>>
vars == <<data, transactions, pc, call, result, locals, stale, acquired, before, staged, dirty, left>>

----------------------------------------------------------------------------
\* Data structures

DataItem(v) == [value |-> v, write_mutex |-> 0, alive |-> TRUE]

Instruction(init, final, type) ==
    [initial_value |-> init, final_value |-> final, instruction_type |-> type]

Transaction == [instructions |-> [k \in {} |-> 0], trans_lock |-> 0, alive |-> TRUE]

EmptyMap == [k \in {} |-> 0]

\* std::map::emplace: inserts unless the key is there
Emplace(m, k, v) ==
    IF k \in DOMAIN m THEN m
    ELSE [x \in DOMAIN m \cup {k} |-> IF x = k THEN v ELSE m[x]]

\* an erase that erases nothing
EraseKeyNot(m, k) == m

\* std::map::erase(key)
EraseKey(m, k) == [x \in DOMAIN m \ {k} |-> m[x]]

\* Helpers of DatabasePrivate
dataHasKey(key) == key \in DOMAIN data

keyIsAlive(key) == dataHasKey(key) /\ data[key].alive

transactionsHasId(id) == id \in DOMAIN transactions

transactionHasKey(id, key) == key \in DOMAIN transactions[id].instructions

transactionIsAlive(id) == transactionsHasId(id) /\ transactions[id].alive

\* Iteration over an instruction map, in key order
FirstKey(ins) == IF ins = EmptyMap THEN End
                 ELSE CHOOSE k \in DOMAIN ins : \A j \in DOMAIN ins : k <= j

NextKey(ins, k) ==
    IF \E j \in DOMAIN ins : j > k
    THEN CHOOSE j \in DOMAIN ins : j > k /\ \A i \in DOMAIN ins : i > k => j <= i
    ELSE End

PrevKey(ins, k) ==
    IF \E j \in DOMAIN ins : j < k
    THEN CHOOSE j \in DOMAIN ins : j < k /\ \A i \in DOMAIN ins : i < k => j >= i
    ELSE REnd

----------------------------------------------------------------------------
\* Threads

NoCall == [op |-> "none", key |-> 0, value |-> 0, tid |-> 0]
NoLocals == 0

\* The store between calls: entries d, transactions txs, every thread idle,
\* thread t with l[t] calls to make
Quiescent(d, txs, l, changed) ==
    /\ data = d
    /\ transactions = txs
    /\ pc = [t \in Threads |-> "idle"]
    /\ call = [t \in Threads |-> NoCall]
    /\ result = [t \in Threads |-> [status |-> "none", value |-> 0]]
    /\ key_instruction_init = [t \in Threads |-> NoLocals]
    /\ key_instruction_exec = [t \in Threads |-> NoLocals]
    /\ key_instruction_release = [t \in Threads |-> NoLocals]
    /\ last_key = [t \in Threads |-> NoLocals]
    /\ stale = [t \in Threads |-> FALSE]
    /\ acquired = "none"
    /\ before = [t \in Threads |-> EmptyMap]
    /\ staged = [t \in Threads |-> EmptyMap]
    /\ dirty = changed
    /\ left = l

\* Database::Database(): both maps empty.  One client makes the calls.
Init == Quiescent(EmptyMap, EmptyMap, [t \in Threads |-> IF t = 1 THEN MaxOps ELSE 0], {})

\* A thread makes a call: it is idle and has calls left to make.
Calls(t, c) ==
    /\ pc[t] = "idle"
    /\ left[t] > 0
    /\ left' = [left EXCEPT ![t] = @ - 1]
    /\ call' = [call EXCEPT ![t] = c]
    /\ before' = [before EXCEPT ![t] =
           IF c.op = "commitTransaction" THEN data ELSE EmptyMap]
    /\ staged' = [staged EXCEPT ![t] =
           IF c.op \in {"commitTransaction", "rollbackTransaction"}
              /\ transactionsHasId(c.tid)
           THEN transactions[c.tid].instructions ELSE EmptyMap]

\* The thread moves to p; st is "pending" while the call runs, and the call's
\* outcome (with the value it returns) when p is "idle".
Goes(t, p, st, v) ==
    /\ pc' = [pc EXCEPT ![t] = p]
    /\ result' = [result EXCEPT ![t] = [status |-> st, value |-> v]]

\* The pcs at which a thread is on its way into lock() of an entry's
\* write_mutex, and the key of that entry.
EntryLockPcs == {"put_lock", "put_verify", "erase_lock", "c_wlock"}

LockKey(u) == IF pc[u] = "c_wlock" THEN key_instruction_init[u] ELSE call[u].key

\* The pcs at which a thread is on its way into lock() of a trans_lock.
TransLockPcs == {"c_lock", "puttx_lock", "gettx_lock", "r_lock"}

\* stale after thread t left its lock() and erased the entries of keys ks
StaleEntries(t, ks) ==
    [u \in Threads |->
        IF u = t THEN FALSE
        ELSE stale[u] \/ (pc[u] \in EntryLockPcs /\ LockKey(u) \in ks)]

\* stale after thread t erased the transactions ids
StaleTrans(t, ids) ==
    [u \in Threads |->
        IF u = t THEN FALSE
        ELSE stale[u] \/ (pc[u] \in TransLockPcs /\ call[u].tid \in ids)]

\* How a lock() goes.  "late": the thread looks the mutex up now and waits
\* for it.  When the object was erased while the thread stood before the
\* lock(), the thread may as well hold a dangling reference, and lock() on
\* it is undefined: it goes through without any mutex being held
\* ("phantom"), or it never returns ("hang").
LockModes(t) == IF stale[t] THEN {"late", "phantom", "hang"} ELSE {"late"}

\* What the entry of key is when a guard of it is acquired
GuardOf(key) == IF ~dataHasKey(key) THEN "removed"
                ELSE IF data[key].alive THEN "alive" ELSE "tombstone"

\* What get(key) returns of the entries d, lines 204-209: the value of a
\* live entry, or nullptr
EntryState(d, k) == IF k \in DOMAIN d /\ d[k].alive THEN d[k].value ELSE 0

CommitPcs == {"c_lock", "c_scan", "c_wlock", "c_check", "c_apply", "c_release", "c_finish"}

\* dirty after a step of thread t: the instructions that stay, with those
\* whose entry this step changed, unless it is their own commit's step
Dirtied(t) ==
    LET own == IF pc[t] \in CommitPcs THEN call[t].tid ELSE 0
        had(p) == /\ p[1] \in DOMAIN transactions
                  /\ p[2] \in DOMAIN transactions[p[1]].instructions
        has(p) == /\ p[1] \in DOMAIN transactions'
                  /\ p[2] \in DOMAIN transactions'[p[1]].instructions
    IN  {p \in Tids \X Keys :
            /\ had(p) /\ has(p)
            /\ \/ p \in dirty
               \/ p[1] # own /\ EntryState(data, p[2]) # EntryState(data', p[2])}

----------------------------------------------------------------------------
\* Database::put(key, value)

\* lines 154-157 and the branch taken
Put(t) ==
    \E k \in Keys, v \in Values :
        /\ Calls(t, [op |-> "put", key |-> k, value |-> v, tid |-> 0])
        /\ IF dataHasKey(k)
           THEN IF ~keyIsAlive(k)
                THEN Goes(t, "idle", "ZombieKey", 0)
                ELSE Goes(t, "put_lock", "pending", 0)
           ELSE Goes(t, "put_emplace", "pending", 0)
        /\ acquired' = "none"
        /\ UNCHANGED <<data, transactions, locals, stale>>
        /\ dirty' = Dirtied(t)

\* lines 159-162: std::lock of write_mutex and read_mutex, assign, unlock
PutLock(t) ==
    LET k == call[t].key
        v == call[t].value
    IN  /\ pc[t] = "put_lock"
        /\ \E m \in LockModes(t) :
            /\ (m = "late" /\ dataHasKey(k)) => data[k].write_mutex = 0
            /\ IF m = "hang"
               THEN /\ Goes(t, "hung", "Undefined", 0)
                    /\ acquired' = "none"
                    /\ data' = data
               ELSE IF ~dataHasKey(k)
               THEN /\ Goes(t, "idle", "OutOfRange", 0)
                    /\ acquired' = IF m = "phantom" THEN "removed" ELSE "none"
                    /\ data' = data
               ELSE /\ Goes(t, "put_verify", "pending", 0)
                    /\ acquired' = IF m = "phantom" THEN "removed" ELSE GuardOf(k)
                    /\ data' = [data EXCEPT ![k].value = v]
        /\ stale' = [stale EXCEPT ![t] = FALSE]
        /\ UNCHANGED <<transactions, call, locals, before, staged, left>>
        /\ dirty' = Dirtied(t)

\* line 164
PutEmplace(t) ==
    /\ pc[t] = "put_emplace"
    /\ data' = Emplace(data, call[t].key, DataItem(call[t].value))
    /\ Goes(t, "put_verify", "pending", 0)
    /\ acquired' = "none"
    /\ UNCHANGED <<transactions, call, locals, stale, before, staged, left>>
    /\ dirty' = Dirtied(t)

\* lines 167-169: the check of the written value under write_mutex
PutVerify(t) ==
    LET k == call[t].key
    IN  /\ pc[t] = "put_verify"
        /\ \E m \in LockModes(t) :
            /\ (m = "late" /\ dataHasKey(k)) => data[k].write_mutex = 0
            /\ IF m = "hang"
               THEN /\ Goes(t, "hung", "Undefined", 0)
                    /\ acquired' = "none"
               ELSE IF ~dataHasKey(k)
               THEN /\ Goes(t, "idle", "OutOfRange", 0)
                    /\ acquired' = IF m = "phantom" THEN "removed" ELSE "none"
               ELSE /\ Goes(t, "idle",
                            IF data[k].value # call[t].value THEN "WriteLost" ELSE "ok", 0)
                    /\ acquired' = IF m = "phantom" THEN "removed" ELSE GuardOf(k)
        /\ stale' = [stale EXCEPT ![t] = FALSE]
        /\ UNCHANGED <<data, transactions, call, locals, before, staged, left>>
        /\ dirty' = Dirtied(t)

----------------------------------------------------------------------------
\* Database::get(key)

\* line 204 (and line 209)
GetCheck(t, k) ==
    /\ IF keyIsAlive(k)
       THEN Goes(t, "get_lock", "pending", 0)
       ELSE Goes(t, "idle", "ok", 0)
    /\ acquired' = "none"
    /\ UNCHANGED <<data, transactions, locals, stale>>

Get(t) ==
    \E k \in Keys :
        /\ Calls(t, [op |-> "get", key |-> k, value |-> 0, tid |-> 0])
        /\ GetCheck(t, k)
        /\ dirty' = Dirtied(t)

\* lines 205-206: the copy of the value under read_mutex
GetLock(t) ==
    LET k == call[t].key
    IN  /\ pc[t] = "get_lock"
        /\ IF ~dataHasKey(k)
           THEN /\ Goes(t, "idle", "OutOfRange", 0)
                /\ acquired' = "none"
           ELSE /\ Goes(t, "idle", "ok", data[k].value)
                /\ acquired' = GuardOf(k)
        /\ UNCHANGED <<data, transactions, call, locals, stale, before, staged, left>>
        /\ dirty' = Dirtied(t)

----------------------------------------------------------------------------
\* Database::erase(key)

\* line 234
Erase(t) ==
    \E k \in Keys :
        /\ Calls(t, [op |-> "erase", key |-> k, value |-> 0, tid |-> 0])
        /\ IF keyIsAlive(k)
           THEN Goes(t, "erase_lock", "pending", 0)
           ELSE Goes(t, "idle", "ok", 0)
        /\ acquired' = "none"
        /\ UNCHANGED <<data, transactions, locals, stale>>
        /\ dirty' = Dirtied(t)

\* lines 235-238: std::lock of both mutexes, erase of the entry that holds them
EraseLock(t) ==
    LET k == call[t].key
    IN  /\ pc[t] = "erase_lock"
        /\ \E m \in LockModes(t) :
            /\ (m = "late" /\ dataHasKey(k)) => data[k].write_mutex = 0
            /\ IF m = "hang"
               THEN /\ Goes(t, "hung", "Undefined", 0)
                    /\ acquired' = "none"
                    /\ data' = data
                    /\ stale' = [stale EXCEPT ![t] = FALSE]
               ELSE IF m = "late" /\ ~dataHasKey(k)
               THEN /\ Goes(t, "idle", "OutOfRange", 0)
                    /\ acquired' = "none"
                    /\ data' = data
                    /\ stale' = [stale EXCEPT ![t] = FALSE]
               ELSE /\ Goes(t, "idle", "ok", 0)
                    /\ acquired' = IF m = "phantom" THEN "removed" ELSE GuardOf(k)
                    /\ data' = EraseKey(data, k)
                    /\ stale' = StaleEntries(t, {k})
        /\ UNCHANGED <<transactions, call, locals, before, staged, left>>
        /\ dirty' = Dirtied(t)

----------------------------------------------------------------------------
\* createTransaction without the find of line 257: an open transaction is
\* replaced by an empty one
CreateTransactionAnew(t) ==
    \E id \in Tids :
        /\ Calls(t, [op |-> "createTransaction", key |-> 0, value |-> 0, tid |-> id])
        /\ transactions' = [x \in DOMAIN transactions \cup {id} |->
                                IF x = id THEN Transaction ELSE transactions[x]]
        /\ Goes(t, "idle", "ok", 0)
        /\ acquired' = "none"
        /\ UNCHANGED <<data, locals, stale>>
        /\ dirty' = Dirtied(t)

\* Database::createTransaction(transaction_id), lines 257-261
CreateTransaction(t) ==
    \E id \in Tids :
        /\ Calls(t, [op |-> "createTransaction", key |-> 0, value |-> 0, tid |-> id])
        /\ IF ~transactionsHasId(id)
           THEN /\ transactions' = Emplace(transactions, id, Transaction)
                /\ Goes(t, "idle", "ok", 0)
           ELSE /\ transactions' = transactions
                /\ Goes(t, "idle", "DuplicateTransaction", 0)
        /\ acquired' = "none"
        /\ UNCHANGED <<data, locals, stale>>
        /\ dirty' = Dirtied(t)

----------------------------------------------------------------------------
\* Database::put(key, value, transaction_id)

\* line 175 (and line 197)
PutTx(t) ==
    \E k \in Keys, v \in Values, id \in Tids :
        /\ Calls(t, [op |-> "putTx", key |-> k, value |-> v, tid |-> id])
        /\ IF transactionIsAlive(id)
           THEN Goes(t, "puttx_lock", "pending", 0)
           ELSE Goes(t, "idle", "NoSuchTransaction", 0)
        /\ acquired' = "none"
        /\ UNCHANGED <<data, transactions, locals, stale>>
        /\ dirty' = Dirtied(t)

\* Staged without line 180: the second put of a key keeps the first value
StagedKeepsFirst(id, k, v) ==
    IF transactionHasKey(id, k)
    THEN transactions[id].instructions
    ELSE Emplace(transactions[id].instructions, k,
                 Instruction(IF dataHasKey(k) THEN data[k].value ELSE 0, v, "Put"))

\* lines 178-195, the instructions after the put
Staged(id, k, v) ==
    IF transactionHasKey(id, k)
    THEN [transactions[id].instructions EXCEPT
              ![k].final_value = v, ![k].instruction_type = "Put"]
    ELSE Emplace(transactions[id].instructions, k,
                 Instruction(IF dataHasKey(k) THEN data[k].value ELSE 0, v, "Put"))

\* lines 177-195: under trans_lock
PutTxLock(t) ==
    LET id == call[t].tid
    IN  /\ pc[t] = "puttx_lock"
        /\ \E m \in LockModes(t) :
            /\ (m = "late" /\ transactionsHasId(id)) => transactions[id].trans_lock = 0
            /\ IF m = "hang"
               THEN /\ Goes(t, "hung", "Undefined", 0)
                    /\ transactions' = transactions
               ELSE IF ~transactionsHasId(id)
               THEN /\ Goes(t, "idle", "OutOfRange", 0)
                    /\ transactions' = transactions
               ELSE /\ Goes(t, "idle", "ok", 0)
                    /\ transactions' = [transactions EXCEPT
                           ![id].instructions = Staged(id, call[t].key, call[t].value)]
        /\ stale' = [stale EXCEPT ![t] = FALSE]
        /\ acquired' = "none"
        /\ UNCHANGED <<data, call, locals, before, staged, left>>
        /\ dirty' = Dirtied(t)

----------------------------------------------------------------------------
\* Database::get(key, transaction_id)

\* line 215 (and line 222)
GetTx(t) ==
    \E k \in Keys, id \in Tids :
        /\ Calls(t, [op |-> "getTx", key |-> k, value |-> 0, tid |-> id])
        /\ IF transactionIsAlive(id)
           THEN Goes(t, "gettx_lock", "pending", 0)
           ELSE Goes(t, "idle", "NoSuchTransaction", 0)
        /\ acquired' = "none"
        /\ UNCHANGED <<data, transactions, locals, stale>>
        /\ dirty' = Dirtied(t)

\* lines 216-220: under trans_lock; without an instruction, on to get(key)
GetTxLock(t) ==
    LET id == call[t].tid
        k == call[t].key
    IN  /\ pc[t] = "gettx_lock"
        /\ \E m \in LockModes(t) :
            /\ (m = "late" /\ transactionsHasId(id)) => transactions[id].trans_lock = 0
            /\ IF m = "hang"
               THEN Goes(t, "hung", "Undefined", 0)
               ELSE IF ~transactionsHasId(id)
               THEN Goes(t, "idle", "OutOfRange", 0)
               ELSE IF transactionHasKey(id, k)
               THEN Goes(t, "idle", "ok", transactions[id].instructions[k].final_value)
               ELSE Goes(t, "get_check", "pending", 0)
        /\ stale' = [stale EXCEPT ![t] = FALSE]
        /\ acquired' = "none"
        /\ UNCHANGED <<data, transactions, call, locals, before, staged, left>>
        /\ dirty' = Dirtied(t)

\* line 228: get(key) called from get(key, transaction_id)
GetTxFall(t) ==
    /\ pc[t] = "get_check"
    /\ GetCheck(t, call[t].key)
    /\ UNCHANGED <<call, before, staged, left>>
    /\ dirty' = Dirtied(t)

----------------------------------------------------------------------------
\* erase(key, transaction_id) that stages an Erase for a key the transaction
\* has no instruction for
EraseTxStages(t) ==
    \E k \in Keys, id \in Tids :
        /\ Calls(t, [op |-> "eraseTx", key |-> k, value |-> 0, tid |-> id])
        /\ IF transactionsHasId(id)
           THEN transactions' = [transactions EXCEPT ![id].instructions =
                    IF transactionHasKey(id, k)
                    THEN [@ EXCEPT ![k].instruction_type = "Erase"]
                    ELSE Emplace(@, k, Instruction(IF dataHasKey(k) THEN data[k].value ELSE 0,
                                                   0, "Erase"))]
           ELSE transactions' = transactions
        /\ Goes(t, "idle", "ok", 0)
        /\ acquired' = "none"
        /\ UNCHANGED <<data, locals, stale>>
        /\ dirty' = Dirtied(t)

\* Database::erase(key, transaction_id), lines 245-251
EraseTx(t) ==
    \E k \in Keys, id \in Tids :
        /\ Calls(t, [op |-> "eraseTx", key |-> k, value |-> 0, tid |-> id])
        /\ IF transactionsHasId(id) /\ transactionHasKey(id, k)
           THEN transactions' = [transactions EXCEPT
                    ![id].instructions[k].instruction_type = "Erase"]
           ELSE transactions' = transactions
        /\ Goes(t, "idle", "ok", 0)
        /\ acquired' = "none"
        /\ UNCHANGED <<data, locals, stale>>
        /\ dirty' = Dirtied(t)

----------------------------------------------------------------------------
\* Database::rollbackTransaction(transaction_id)

\* line 267
RollbackTransaction(t) ==
    \E id \in Tids :
        /\ Calls(t, [op |-> "rollbackTransaction", key |-> 0, value |-> 0, tid |-> id])
        /\ IF ~transactionsHasId(id)
           THEN Goes(t, "idle", "NoSuchTransaction", 0)
           ELSE Goes(t, "r_lock", "pending", 0)
        /\ acquired' = "none"
        /\ UNCHANGED <<data, transactions, locals, stale>>
        /\ dirty' = Dirtied(t)

\* lines 270-273: alive = false under trans_lock
RollbackLock(t) ==
    LET id == call[t].tid
    IN  /\ pc[t] = "r_lock"
        /\ \E m \in LockModes(t) :
            /\ (m = "late" /\ transactionsHasId(id)) => transactions[id].trans_lock = 0
            /\ IF m = "hang"
               THEN /\ Goes(t, "hung", "Undefined", 0)
                    /\ transactions' = transactions
               ELSE IF ~transactionsHasId(id)
               THEN /\ Goes(t, "idle", "OutOfRange", 0)
                    /\ transactions' = transactions
               ELSE /\ Goes(t, "r_erase", "pending", 0)
                    /\ transactions' = [transactions EXCEPT ![id].alive = FALSE]
        /\ stale' = [stale EXCEPT ![t] = FALSE]
        /\ acquired' = "none"
        /\ UNCHANGED <<data, call, locals, before, staged, left>>
        /\ dirty' = Dirtied(t)

\* RollbackErase without line 274: the transaction stays in the map
RollbackKeeps(t) ==
    /\ pc[t] = "r_erase"
    /\ transactions' = transactions
    /\ stale' = stale
    /\ Goes(t, "idle", "ok", 0)
    /\ acquired' = "none"
    /\ UNCHANGED <<data, call, locals, before, staged, left>>
    /\ dirty' = Dirtied(t)

\* line 274
RollbackErase(t) ==
    /\ pc[t] = "r_erase"
    /\ transactions' = EraseKey(transactions, call[t].tid)
    /\ stale' = StaleTrans(t, {call[t].tid})
    /\ Goes(t, "idle", "ok", 0)
    /\ acquired' = "none"
    /\ UNCHANGED <<data, call, locals, before, staged, left>>
    /\ dirty' = Dirtied(t)

----------------------------------------------------------------------------
\* Database::commitTransaction(transaction_id)

\* The commit's iterators and last_key
LocalsAre(t, i, e, r, l) ==
    /\ key_instruction_init' = [key_instruction_init EXCEPT ![t] = i]
    /\ key_instruction_exec' = [key_instruction_exec EXCEPT ![t] = e]
    /\ key_instruction_release' = [key_instruction_release EXCEPT ![t] = r]
    /\ last_key' = [last_key EXCEPT ![t] = l]

\* An exception leaves commitTransaction: the ScopeLock of line 286 unlocks
\* trans_lock, the write_mutexes stay as they are.
Throws(t, st) ==
    /\ Goes(t, "idle", st, 0)
    /\ LocalsAre(t, NoLocals, NoLocals, NoLocals, NoLocals)

\* ~ScopeLock of line 286
Unlocked(t, id) ==
    IF transactionsHasId(id) /\ transactions[id].trans_lock = t
    THEN [transactions EXCEPT ![id].trans_lock = 0]
    ELSE transactions

\* line 281
CommitTransaction(t) ==
    \E id \in Tids :
        /\ Calls(t, [op |-> "commitTransaction", key |-> 0, value |-> 0, tid |-> id])
        /\ IF ~transactionIsAlive(id)
           THEN Goes(t, "idle", "NoSuchTransaction", 0)
           ELSE Goes(t, "c_lock", "pending", 0)
        /\ acquired' = "none"
        /\ UNCHANGED <<data, transactions, locals, stale>>
        /\ dirty' = Dirtied(t)

\* lines 309-310 and 346-348 on an empty instruction map dereference begin()
\* and rbegin(), which are end() and rend(): undefined.  The commit crashes,
\* or it gets past both and goes on to line 363.
EmptyModes == {"crash", "skip"}

\* lines 286-295: trans_lock, the second look at alive, the loop's begin()
CommitLock(t) ==
    LET id == call[t].tid
    IN  /\ pc[t] = "c_lock"
        /\ \E m \in LockModes(t), e \in EmptyModes :
            /\ (m = "late" /\ transactionsHasId(id)) => transactions[id].trans_lock = 0
            /\ IF m = "hang"
               THEN /\ Goes(t, "hung", "Undefined", 0)
                    /\ UNCHANGED <<transactions, locals>>
               ELSE IF m = "late" /\ ~transactionsHasId(id)
               THEN \* at() of line 286 throws
                    /\ Throws(t, "OutOfRange")
                    /\ transactions' = transactions
               ELSE IF ~transactionIsAlive(id)
               THEN \* line 288
                    /\ Throws(t, "Quiet")
                    /\ transactions' = transactions
               ELSE LET held == IF m = "late"
                                THEN [transactions EXCEPT ![id].trans_lock = t]
                                ELSE transactions
                        ins == transactions[id].instructions
                    IN  IF ins = EmptyMap /\ e = "crash"
                        THEN /\ Goes(t, "hung", "Undefined", 0)
                             /\ transactions' = held
                             /\ UNCHANGED locals
                        ELSE IF ins = EmptyMap
                        THEN /\ Goes(t, "c_finish", "pending", 0)
                             /\ transactions' = held
                             /\ LocalsAre(t, NoLocals, End, NoLocals, NoLocals)
                        ELSE /\ Goes(t, "c_scan", "pending", 0)
                             /\ transactions' = held
                             /\ LocalsAre(t, FirstKey(ins), NoLocals, NoLocals, NoLocals)
        /\ stale' = [stale EXCEPT ![t] = FALSE]
        /\ acquired' = "none"
        /\ UNCHANGED <<data, call, before, staged, left>>
        /\ dirty' = Dirtied(t)

\* lines 296-297 after the instruction of key k, then lines 309-310 at the
\* end of the locking loop
Advance(t, ins, k) ==
    IF NextKey(ins, k) = End
    THEN /\ Goes(t, "c_check", "pending", 0)
         /\ LocalsAre(t, NoLocals, FirstKey(ins), NoLocals, FirstKey(ins))
    ELSE /\ Goes(t, "c_scan", "pending", 0)
         /\ LocalsAre(t, NextKey(ins, k), NoLocals, NoLocals, NoLocals)

\* line 299: keyIsAlive of the instruction's key
CommitScan(t) ==
    LET id == call[t].tid
        k == key_instruction_init[t]
    IN  /\ pc[t] = "c_scan"
        /\ IF ~transactionsHasId(id)
           THEN Throws(t, "OutOfRange")
           ELSE /\ IF keyIsAlive(k)
                   THEN /\ Goes(t, "c_wlock", "pending", 0)
                        /\ UNCHANGED locals
                   ELSE Advance(t, transactions[id].instructions, k)
        /\ acquired' = "none"
        /\ UNCHANGED <<data, transactions, call, stale, before, staged, left>>
        /\ dirty' = Dirtied(t)

\* line 300: write_mutex.lock(); lines 302-304 when at() throws
CommitWLock(t) ==
    LET id == call[t].tid
        k == key_instruction_init[t]
    IN  /\ pc[t] = "c_wlock"
        /\ \E m \in LockModes(t) :
            /\ (m = "late" /\ dataHasKey(k)) => data[k].write_mutex = 0
            /\ (m = "late" /\ ~dataHasKey(k) /\ transactionsHasId(id))
                   => transactions[id].trans_lock \in {0, t}
            /\ IF m = "hang"
               THEN /\ Goes(t, "hung", "Undefined", 0)
                    /\ acquired' = "none"
                    /\ stale' = [stale EXCEPT ![t] = FALSE]
                    /\ UNCHANGED <<data, transactions, locals>>
               ELSE IF m = "late" /\ ~dataHasKey(k)
               THEN \* rollbackTransaction(transaction_id) inside the commit
                    /\ acquired' = "none"
                    /\ data' = data
                    /\ IF ~transactionsHasId(id)
                       THEN /\ Throws(t, "NoSuchTransaction")
                            /\ transactions' = transactions
                            /\ stale' = [stale EXCEPT ![t] = FALSE]
                       ELSE IF transactions[id].trans_lock = t
                       THEN \* line 271 locks the mutex line 286 holds
                            /\ Goes(t, "hung", "Undefined", 0)
                            /\ stale' = [stale EXCEPT ![t] = FALSE]
                            /\ UNCHANGED <<transactions, locals>>
                       ELSE /\ Throws(t, "CommitFailed")
                            /\ transactions' = EraseKey(transactions, id)
                            /\ stale' = StaleTrans(t, {id})
               ELSE /\ acquired' = IF m = "phantom" THEN "removed" ELSE GuardOf(k)
                    /\ data' = IF m = "phantom" THEN data
                               ELSE [data EXCEPT ![k].write_mutex = t]
                    /\ stale' = [stale EXCEPT ![t] = FALSE]
                    /\ transactions' = transactions
                    /\ IF ~transactionsHasId(id)
                       THEN Throws(t, "OutOfRange")
                       ELSE /\ Advance(t, transactions[id].instructions, k)
        /\ UNCHANGED <<call, before, staged, left>>
        /\ dirty' = Dirtied(t)

\* lines 318-322: the instruction's snapshot against the entry
Tampered(inst, k) ==
    \/ inst.initial_value = 0 /\ keyIsAlive(k)
    \/ inst.initial_value # 0 /\ ~keyIsAlive(k)
    \/ inst.initial_value # 0 /\ keyIsAlive(k) /\ data[k].value # inst.initial_value

\* lines 312-324; on a conflict, lines 346-350 find last_key
CommitCheck(t) ==
    LET id == call[t].tid
        k == key_instruction_exec[t]
    IN  /\ pc[t] = "c_check"
        /\ IF ~transactionsHasId(id)
           THEN /\ Throws(t, "OutOfRange")
                /\ transactions' = transactions
           ELSE /\ IF Tampered(transactions[id].instructions[k], k)
                   THEN /\ Goes(t, "c_release", "pending", 0)
                        /\ LocalsAre(t, NoLocals, k, last_key[t], last_key[t])
                   ELSE /\ Goes(t, "c_apply", "pending", 0)
                        /\ UNCHANGED locals
                /\ transactions' = transactions
        /\ acquired' = "none"
        /\ UNCHANGED <<data, call, stale, before, staged, left>>
        /\ dirty' = Dirtied(t)

\* lines 326-341, the entries after the instruction is executed
Applied(inst, k) ==
    IF inst.instruction_type = "Put"
    THEN IF dataHasKey(k)
         THEN [data EXCEPT ![k].value = inst.final_value]
         ELSE Emplace(data, k, DataItem(inst.final_value))
    ELSE [data EXCEPT ![k].alive = FALSE]

\* lines 326-343, then lines 346-350 at the end of the execution loop
CommitApply(t) ==
    LET id == call[t].tid
        k == key_instruction_exec[t]
    IN  /\ pc[t] = "c_apply"
        /\ IF ~transactionsHasId(id)
           THEN /\ Throws(t, "OutOfRange")
                /\ acquired' = "none"
                /\ UNCHANGED <<data, transactions>>
           ELSE LET ins == transactions[id].instructions
                    inst == ins[k]
                IN  IF inst.instruction_type = "Erase" /\ ~dataHasKey(k)
                    THEN \* data->at(inst.key) of line 337 throws
                         /\ Throws(t, "OutOfRange")
                         /\ acquired' = "none"
                         /\ data' = data
                         /\ transactions' = Unlocked(t, id)
                    ELSE /\ data' = Applied(inst, k)
                         /\ acquired' = IF dataHasKey(k) THEN GuardOf(k) ELSE "none"
                         /\ transactions' = transactions
                         /\ IF NextKey(ins, k) = End
                            THEN /\ Goes(t, "c_release", "pending", 0)
                                 /\ LocalsAre(t, NoLocals, End, k, k)
                            ELSE /\ Goes(t, "c_check", "pending", 0)
                                 /\ LocalsAre(t, NoLocals, NextKey(ins, k), NoLocals, k)
        /\ UNCHANGED <<call, stale, before, staged, left>>
        /\ dirty' = Dirtied(t)

\* lines 352-360 for one instruction: unlock, and erase for an Erase
CommitRelease(t) ==
    LET id == call[t].tid
        k == key_instruction_release[t]
    IN  /\ pc[t] = "c_release"
        /\ IF ~transactionsHasId(id)
           THEN /\ Throws(t, "OutOfRange")
                /\ stale' = stale
                /\ UNCHANGED <<data, transactions>>
           ELSE LET ins == transactions[id].instructions
                IN  IF ~dataHasKey(k)
                    THEN \* data->at(key) of line 355 throws
                         /\ Throws(t, "OutOfRange")
                         /\ stale' = stale
                         /\ data' = data
                         /\ transactions' = Unlocked(t, id)
                    ELSE /\ IF ins[k].instruction_type = "Erase"
                            THEN /\ data' = EraseKey(data, k)
                                 /\ stale' = StaleEntries(t, {k})
                            ELSE /\ data' = [data EXCEPT ![k].write_mutex = 0]
                                 /\ stale' = stale
                         /\ transactions' = transactions
                         /\ IF PrevKey(ins, k) = REnd
                            THEN /\ Goes(t, "c_finish", "pending", 0)
                                 /\ LocalsAre(t, NoLocals, key_instruction_exec[t],
                                              NoLocals, NoLocals)
                            ELSE /\ Goes(t, "c_release", "pending", 0)
                                 /\ LocalsAre(t, NoLocals, key_instruction_exec[t],
                                              PrevKey(ins, k), last_key[t])
        /\ acquired' = "none"
        /\ UNCHANGED <<call, before, staged, left>>
        /\ dirty' = Dirtied(t)

\* lines 362-369: the transaction is erased, with or without the exception
CommitFinish(t) ==
    LET id == call[t].tid
    IN  /\ pc[t] = "c_finish"
        /\ IF ~transactionsHasId(id)
           THEN /\ Throws(t, "OutOfRange")
                /\ transactions' = transactions
                /\ stale' = stale
           ELSE /\ Throws(t, IF key_instruction_exec[t] # End
                             THEN "TransactionConflict" ELSE "ok")
                /\ transactions' = EraseKey(transactions, id)
                /\ stale' = StaleTrans(t, {id})
        /\ acquired' = "none"
        /\ UNCHANGED <<data, call, before, staged, left>>
        /\ dirty' = Dirtied(t)

----------------------------------------------------------------------------
Auto(t) ==
    \/ Put(t) \/ PutLock(t) \/ PutEmplace(t) \/ PutVerify(t)
    \/ Get(t) \/ GetLock(t)
    \/ Erase(t) \/ EraseLock(t)

Staging(t) ==
    \/ CreateTransaction(t)
    \/ PutTx(t) \/ PutTxLock(t)
    \/ GetTx(t) \/ GetTxLock(t) \/ GetTxFall(t)
    \/ EraseTx(t)
    \/ RollbackTransaction(t) \/ RollbackLock(t) \/ RollbackErase(t)

Commit(t) ==
    \/ CommitTransaction(t) \/ CommitLock(t) \/ CommitScan(t) \/ CommitWLock(t)
    \/ CommitCheck(t) \/ CommitApply(t) \/ CommitRelease(t) \/ CommitFinish(t)

Thread(t) == Auto(t) \/ Staging(t) \/ Commit(t)

Next == \E t \in Threads : Thread(t)

\* One client, from the constructed store: the calls come one after another.
SeqSpec == Init /\ [][Next]_vars

\* One client making auto-commit calls only, from the constructed store
\* (main() lines 16-18).
AutoNext == \E t \in Threads : Auto(t)

AutoSpec == Init /\ [][AutoNext]_vars

----------------------------------------------------------------------------
\* Stores with staged transactions, as main() has them at lines 82 and 57:
\* every transaction id is open, and has staged, against the entries as
\* they are, a put of its own value or an erase for some of the keys.

\* the entries with value f[k] for the keys with f[k] # 0
Entries(f) == [k \in {x \in Keys : f[x] # 0} |-> DataItem(f[k])]

\* the value transaction id stages
FinalOf(id) == ((id - 1) % MaxVal) + 1

\* the transaction id with an instruction of type kinds[k] and snapshot
\* snap[k] for the keys with kinds[k] # "none"
StagedTransaction(id, kinds, snap) ==
    [Transaction EXCEPT !.instructions =
        [k \in {x \in Keys : kinds[x] # "none"} |->
            Instruction(snap[k], FinalOf(id), kinds[k])]]

Kinds == [Keys -> {"none", "Put", "Erase"}]

StagedInit ==
    \E f \in [Keys -> 0..MaxVal], kinds \in [Tids -> Kinds] :
        Quiescent(Entries(f),
                  [id \in Tids |-> StagedTransaction(id, kinds[id], f)],
                  [t \in Threads |-> MaxCalls], {})

\* Several clients at once, on staged transactions: auto-commit calls,
\* rollbacks and commits.
Rollback(t) == RollbackTransaction(t) \/ RollbackLock(t) \/ RollbackErase(t)

StagedNext == \E t \in Threads : Auto(t) \/ Rollback(t) \/ Commit(t)

Spec == StagedInit /\ [][StagedNext]_vars

\* Clients committing one after another, each in a thread of its own that
\* is started when the threads before it have made their calls and returned
\* (as main() starts t3 at line 82 after the join() of lines 70-71).
\* The snapshots were taken at any time before: the entries have changed
\* since in any way.
TamperedInit ==
    \E f \in [Keys -> 0..MaxVal], kinds \in [Tids -> Kinds],
       snap \in [Tids -> [Keys -> 0..MaxVal]] :
        Quiescent(Entries(f),
                  [id \in Tids |-> StagedTransaction(id, kinds[id], snap[id])],
                  [t \in Threads |-> MaxCalls],
                  {p \in Tids \X Keys :
                      kinds[p[1]][p[2]] # "none" /\ snap[p[1]][p[2]] # f[p[2]]})

Joined(t) == \A u \in 1..(t - 1) : pc[u] = "idle" /\ left[u] = 0

CommitStep(t) ==
    \/ Joined(t) /\ CommitTransaction(t)
    \/ CommitLock(t) \/ CommitScan(t) \/ CommitWLock(t)
    \/ CommitCheck(t) \/ CommitApply(t) \/ CommitRelease(t) \/ CommitFinish(t)

CommitNext == \E t \in Threads : CommitStep(t)

CommitSpec == TamperedInit /\ [][CommitNext]_vars

\* The same, every thread that can take a step being scheduled in the end.
FairCommitSpec == CommitSpec /\ \A t \in Threads : WF_vars(CommitStep(t))

----------------------------------------------------------------------------
\* Properties

\* thread t has returned from a call of op
Returned(t, op) == pc[t] = "idle" /\ call[t].op = op

FailedCommit == {"TransactionConflict", "CommitFailed"}

\* the instructions ins are all carried out on the entries
AllApplied(ins) ==
    \A k \in DOMAIN ins :
        IF ins[k].instruction_type = "Put"
        THEN keyIsAlive(k) /\ data[k].value = ins[k].final_value
        ELSE ~dataHasKey(k)

\* the call of thread t returns success in this step
Succeeds(t, op) ==
    /\ call[t].op = op
    /\ pc[t] # "idle" /\ pc'[t] = "idle"
    /\ result'[t].status = "ok"

\* the instructions ins are puts, one at least
SetsOnly(ins) ==
    /\ ins # EmptyMap
    /\ \A k \in DOMAIN ins : ins[k].instruction_type = "Put"

\* every key of ins is live with the final_value ins has for it
HoldsFinals(ins) ==
    \A k \in DOMAIN ins : keyIsAlive(k) /\ data[k].value = ins[k].final_value

\* what get(key, id) returns for a live transaction id, lines 216-228
GetTxOf(txs, d, id, k) ==
    IF k \in DOMAIN txs[id].instructions
    THEN txs[id].instructions[k].final_value
    ELSE EntryState(d, k)

\* C1: a commit is all or nothing.  With one client making the calls: when
\* commitTransaction has failed with TransactionConflict or CommitFailed,
\* get(key) returns for every key of its instructions what it returned when
\* the commit was called; when it has succeeded, every instruction is
\* carried out.
C1_CommitAllOrNothing ==
    \A t \in Threads :
        Returned(t, "commitTransaction") =>
            /\ result[t].status \in FailedCommit =>
                   \A k \in DOMAIN staged[t] :
                       EntryState(data, k) = EntryState(before[t], k)
            /\ result[t].status = "ok" => AllApplied(staged[t])

\* C2: two threads have committed, at the same time or one after the other,
\* two transactions that staged puts of different values on the same keys:
\* one commit has succeeded and the other has failed with
\* TransactionConflict, and every one of the keys holds the value staged by
\* one and the same of the two transactions.
C2_OneOfTwoCommitsWins ==
    \A t, u \in Threads :
        ( /\ t # u
          /\ Returned(t, "commitTransaction") /\ Returned(u, "commitTransaction")
          /\ call[t].tid # call[u].tid
          /\ SetsOnly(staged[t]) /\ SetsOnly(staged[u])
          /\ DOMAIN staged[t] = DOMAIN staged[u]
          /\ \A k \in DOMAIN staged[t] :
                 staged[t][k].final_value # staged[u][k].final_value )
        => /\ \E w \in {t, u} : \E l \in {t, u} \ {w} :
                  /\ result[w].status = "ok"
                  /\ result[l].status = "TransactionConflict"
           /\ \E w \in {t, u} : HoldsFinals(staged[w])

\* C3: a commit succeeds only if no key of its instructions was changed
\* between the transaction's first touch of the key and the commit, a change
\* that was changed back since included.
C3_SuccessOnlyIfUntouched ==
    [][\A t \in Threads :
           Succeeds(t, "commitTransaction") =>
               \A k \in DOMAIN staged[t] : <<call[t].tid, k>> \notin dirty]_vars

\* C4: commits do not deadlock: when the commits before have returned with
\* success or with TransactionConflict, a thread that stands before the
\* lock() of an entry's write_mutex in commitTransaction gets past it in
\* the end.
C4_NoCommitBlocksForever ==
    \A t \in Threads :
        ( /\ pc[t] = "c_wlock"
          /\ \A u \in Threads \ {t} :
                 result[u].status \in {"none", "ok", "TransactionConflict"} )
        ~> (pc[t] # "c_wlock")

\* C5: two threads have called commitTransaction on the same transaction of
\* puts, live at the first call: one call has succeeded, the other has
\* failed with NoSuchTransaction or returned silently, and every staged key
\* holds its staged final value.
C5_DoubleCommitAppliesOnce ==
    \A t, u \in Threads :
        ( /\ t # u
          /\ Returned(t, "commitTransaction") /\ Returned(u, "commitTransaction")
          /\ call[t].tid = call[u].tid
          /\ SetsOnly(staged[t]) )
        => /\ \E w \in {t, u} : \E l \in {t, u} \ {w} :
                  /\ result[w].status = "ok"
                  /\ result[l].status \in {"NoSuchTransaction", "Quiet"}
           /\ HoldsFinals(staged[t])

\* C6: no step acquires the read_mutex or the write_mutex of an entry whose
\* alive flag is false, nor of an entry that was erased from the map.
C6_GuardsOnlyOnLiveEntries == acquired \in {"none", "alive"}

\* C7: when commitTransaction returns success, every Put instruction's key
\* is present and alive with the instruction's final_value, and every Erase
\* instruction's key is absent from the map.
C7_SuccessAppliesAll ==
    [][\A t \in Threads :
           Succeeds(t, "commitTransaction") => AllApplied(staged[t])']_vars

\* C8: the steps of put(key, value, transaction_id) and of
\* erase(key, transaction_id) leave the entries (keys, values, alive flags)
\* and every other transaction as they are, so that get(key) and
\* get(key, other_id) return what they returned before; and when the put
\* returns, get(key, transaction_id) returns the value it staged.
C8_StagedInvisibleOutside ==
    [][\A t \in Threads :
           ( \/ call'[t].op \in {"putTx", "eraseTx"} /\ left'[t] # left[t]
             \/ pc[t] = "puttx_lock" )
           => /\ data' = data
              /\ \A k \in Keys : EntryState(data', k) = EntryState(data, k)
              /\ \A id \in DOMAIN transactions \ {call'[t].tid} :
                     /\ id \in DOMAIN transactions'
                     /\ transactions'[id] = transactions[id]
                     /\ \A k \in Keys :
                            GetTxOf(transactions', data', id, k)
                                = GetTxOf(transactions, data, id, k)
              /\ Succeeds(t, "putTx") =>
                     GetTxOf(transactions', data', call[t].tid, call[t].key)
                         = call[t].value]_vars

\* put(key, value, transaction_id) has returned and get(key) does not
\* return the staged value
C8_Witness ==
    \E t \in Threads :
        /\ Returned(t, "putTx") /\ result[t].status = "ok"
        /\ transactionIsAlive(call[t].tid)
        /\ GetTxOf(transactions, data, call[t].tid, call[t].key) = call[t].value
        /\ EntryState(data, call[t].key) # call[t].value

\* C9: get(key, transaction_id) on a live transaction returns the
\* final_value of the transaction's Put instruction for key, nullptr when
\* the instruction is an Erase, and what get(key) returns when the
\* transaction has no instruction for key.
C9_GetInTransaction ==
    \A t \in Threads :
        (Returned(t, "getTx") /\ transactionIsAlive(call[t].tid)) =>
            LET ins == transactions[call[t].tid].instructions
                k == call[t].key
            IN  /\ result[t].status = "ok"
                /\ result[t].value =
                       IF k \notin DOMAIN ins THEN EntryState(data, k)
                       ELSE IF ins[k].instruction_type = "Put"
                       THEN ins[k].final_value ELSE 0

\* C10: erase(key, transaction_id) called with an id that names no live
\* transaction fails with NoSuchTransaction and changes neither the entries
\* nor the transactions.
C10_EraseNeedsLiveTransaction ==
    [][\A t \in Threads :
           ( /\ left'[t] # left[t]
             /\ call'[t].op = "eraseTx"
             /\ ~transactionIsAlive(call'[t].tid) )
           => /\ result'[t].status = "NoSuchTransaction"
              /\ data' = data
              /\ transactions' = transactions]_vars

\* thread t makes a call of op in this step
CallsNow(t, op) == left'[t] # left[t] /\ call'[t].op = op

\* the transactions other than id are as they were
OthersKept(id) ==
    \A x \in DOMAIN transactions \ {id} :
        x \in DOMAIN transactions' /\ transactions'[x] = transactions[x]

\* C11: rollbackTransaction on a live transaction leaves the entries and
\* the other transactions as they are, and when it returns the transaction
\* with all its instructions is gone from the map; put(key, value, id),
\* get(key, id) and commitTransaction(id) on an id that names no live
\* transaction fail with NoSuchTransaction and change nothing.
C11_RollbackDiscards ==
    [][\A t \in Threads :
           /\ (CallsNow(t, "rollbackTransaction") \/ pc[t] \in {"r_lock", "r_erase"})
              => /\ data' = data
                 /\ OthersKept(call'[t].tid)
           /\ Succeeds(t, "rollbackTransaction")
              => call[t].tid \notin DOMAIN transactions'
           /\ \A op \in {"putTx", "getTx", "commitTransaction"} :
                  (CallsNow(t, op) /\ ~transactionIsAlive(call'[t].tid))
                  => /\ result'[t].status = "NoSuchTransaction"
                     /\ pc'[t] = "idle"
                     /\ data' = data
                     /\ transactions' = transactions]_vars

\* rollbackTransaction has returned from a transaction that held
\* instructions, and the transaction is gone
C11_Witness ==
    \E t \in Threads :
        /\ Returned(t, "rollbackTransaction") /\ result[t].status = "ok"
        /\ staged[t] # EmptyMap
        /\ ~transactionsHasId(call[t].tid)

\* C12: createTransaction on the id of a live transaction fails with
\* DuplicateTransaction and leaves the transactions and the entries as they
\* are; on an id that names no transaction it succeeds and adds an empty,
\* alive transaction under that id.
C12_CreateTransaction ==
    [][\A t \in Threads :
           CallsNow(t, "createTransaction") =>
               LET id == call'[t].tid
               IN  /\ data' = data
                   /\ OthersKept(id)
                   /\ pc'[t] = "idle"
                   /\ transactionIsAlive(id)
                      => /\ result'[t].status = "DuplicateTransaction"
                         /\ transactions' = transactions
                   /\ ~transactionsHasId(id)
                      => /\ result'[t].status = "ok"
                         /\ id \in DOMAIN transactions'
                         /\ transactions'[id].instructions = EmptyMap
                         /\ transactions'[id].alive]_vars

\* createTransaction has failed on the id of a transaction that holds
\* instructions
C12_Witness ==
    \E t \in Threads :
        /\ Returned(t, "createTransaction")
        /\ result[t].status = "DuplicateTransaction"
        /\ transactionIsAlive(call[t].tid)
        /\ transactions[call[t].tid].instructions # EmptyMap

\* the keys other than k read as they did
OtherKeysKept(k) ==
    \A x \in Keys \ {k} : EntryState(data', x) = EntryState(data, x)

\* C13: with one client that makes auto-commit calls only, the store reads
\* as a plain map: every call returns without an exception; a step of
\* put(k, v) or erase(k) changes what get reads of no other key; when
\* put(k, v) returns, get reads v for k; when erase(k) returns, get reads
\* nullptr for k, and an erase of an absent key changes nothing; get(k)
\* changes nothing and returns what the store reads for k.
C13_PlainMap ==
    [][\A t \in Threads :
           LET c == call'[t]
               returns == pc'[t] = "idle" /\ (pc[t] # "idle" \/ left'[t] # left[t])
           IN  /\ returns => result'[t].status = "ok"
               /\ (c.op \in {"put", "erase"} /\ (left'[t] # left[t] \/ pc'[t] # pc[t]))
                  => OtherKeysKept(c.key)
               /\ (c.op = "put" /\ returns) => EntryState(data', c.key) = c.value
               /\ (c.op = "erase" /\ returns) => EntryState(data', c.key) = 0
               /\ (CallsNow(t, "erase") /\ ~dataHasKey(c.key))
                  => returns /\ data' = data
               /\ (c.op = "get" /\ (left'[t] # left[t] \/ pc'[t] # pc[t]))
                  => data' = data
               /\ (c.op = "get" /\ returns)
                  => result'[t].value = EntryState(data, c.key)]_vars

\* erase has returned from a key it erased while another key is present
C13_Witness ==
    \E t \in Threads :
        /\ Returned(t, "erase") /\ result[t].status = "ok"
        /\ ~dataHasKey(call[t].key)
        /\ left[t] < MaxOps - 1
        /\ \E x \in Keys : keyIsAlive(x)

\* C14: a thread has called rollbackTransaction and another
\* commitTransaction on the same live transaction of puts, and neither call
\* is still running: either the rollback has succeeded, the commit has
\* returned quietly or failed with NoSuchTransaction and the entries are as
\* they were; or the commit has succeeded with its instructions applied and
\* the rollback has failed with NoSuchTransaction.  The transaction is gone
\* and neither call has ended on a transaction that was removed under it.
C14_RollbackAgainstCommit ==
    \A r, c \in Threads :
        ( /\ r # c
          /\ call[r].op = "rollbackTransaction" /\ call[c].op = "commitTransaction"
          /\ call[r].tid = call[c].tid
          /\ SetsOnly(staged[r]) \/ SetsOnly(staged[c])
          /\ pc[r] \in {"idle", "hung"} /\ pc[c] \in {"idle", "hung"} )
        => /\ pc[r] = "idle" /\ pc[c] = "idle"
           /\ ~transactionsHasId(call[r].tid)
           /\ \/ /\ result[r].status = "ok"
                 /\ result[c].status \in {"Quiet", "NoSuchTransaction"}
                 /\ \A k \in Keys : EntryState(data, k) = EntryState(before[c], k)
              \/ /\ result[c].status = "ok"
                 /\ result[r].status = "NoSuchTransaction"
                 /\ HoldsFinals(staged[c])

\* a commit that got past line 281 returns in this step
CommitReturns(t) == pc[t] \in CommitPcs /\ pc'[t] = "idle"

\* C15: the release loop unlocks the write_mutex of an entry only when the
\* committing thread holds it, and when commitTransaction returns with
\* success, TransactionConflict or CommitFailed the thread holds the
\* write_mutex of no entry.
C15_ReleaseWhatWasLocked ==
    [][\A t \in Threads :
           /\ ( /\ pc[t] = "c_release"
                /\ transactionsHasId(call[t].tid)
                /\ dataHasKey(key_instruction_release[t]) )
              => data[key_instruction_release[t]].write_mutex = t
           /\ ( /\ CommitReturns(t)
                /\ result'[t].status \in {"ok"} \cup FailedCommit )
              => \A k \in DOMAIN data' : data'[k].write_mutex # t]_vars

\* C16: when a commit evaluates the conflict check of an instruction whose
\* key is alive, and when it overwrites or tombstones a live entry, the
\* committing thread holds the entry's write_mutex.
C16_CheckedUnderWriteMutex ==
    [][\A t \in Threads :
           ( /\ pc[t] \in {"c_check", "c_apply"}
             /\ pc'[t] # pc[t]
             /\ transactionsHasId(call[t].tid)
             /\ keyIsAlive(key_instruction_exec[t]) )
           => data[key_instruction_exec[t]].write_mutex = t]_vars

\* C17: when no commitTransaction is in progress, every entry of the map
\* is alive.
C17_TombstonesTransient ==
    (\A t \in Threads : pc[t] \notin CommitPcs)
        => \A k \in DOMAIN data : data[k].alive

\* C18: when commitTransaction, called on a live transaction, returns,
\* with whatever outcome, the transaction is no longer in the map.
C18_CommitDestroysTransaction ==
    [][\A t \in Threads :
           (CommitReturns(t) /\ staged[t] # EmptyMap)
           => ~(call[t].tid \in DOMAIN transactions')]_vars

C20_EmptyCommit ==
    \A t \in Threads :
        ( /\ call[t].op = "commitTransaction"
          /\ staged[t] = EmptyMap
          /\ result[t].status \notin {"pending", "NoSuchTransaction"} )
        => /\ pc[t] = "idle"
           /\ result[t].status = "ok"
           /\ data = before[t]
           /\ ~transactionsHasId(call[t].tid)

====
